---- MODULE Spec2Model ----
(***************************************************************************)
(* Coalition simulator (src/app.js): the majority-coalition generator and  *)
(* the agreement scorer, as pure functions over the loaded party roster    *)
(* and statement set, and the application around them: data loading, the   *)
(* coalition selection, its live views and the coalition search.           *)
(*                                                                         *)
(* Numbers that the JavaScript code keeps as doubles are modelled as exact *)
(* fractions [n, d]; d = 0 encodes the non-finite doubles (NaN, Infinity). *)
(* The rounding error of binary floating point is outside the model.       *)
(***************************************************************************)
EXTENDS Integers, Sequences, FiniteSets, TLC

VARIABLES
    parties,      \* let parties: the roster, a sequence of [name, seats]
    statements,   \* let statements: a sequence of [positions]
    lastOp,       \* which function was called last
    genArg,       \* generateMajorityCoalitions: the requiredPartyName argument
    coalitions,   \* generateMajorityCoalitions: the returned list
    enumerated,   \* generateMajorityCoalitions: every combination it formed
    combArg,      \* getCombinations: the size argument
    combos,       \* getCombinations: the returned list
    scoreArg,     \* calculateCoalitionAgreement: the coalition argument
    score,        \* calculateCoalitionAgreement: the returned object
    loadPhase,    \* loadData: where the async function stands
    fetches,      \* loadData: the number of fetch() calls made
    alerts,       \* loadData: the number of alert() dialogs shown
    listeners,    \* setupEventListeners: the handlers registered
    coalitionParties,  \* let coalitionParties: the Set of selected names
    dom,          \* the document: panes, bars, statement items, suggestions
    uiArg,        \* the arguments of the handleDrop or applyCoalition that ran last
    scoredCoalitions,  \* findBestCoalitions: scoredCoalitions after the sort
    scoreLog      \* the scores of the first search without a required party

coreVars == <<parties, statements, lastOp, genArg, coalitions, enumerated, combArg, combos,
              scoreArg, score>>

loadVars == <<loadPhase, fetches, alerts, listeners>>

uiVars == <<coalitionParties, dom, uiArg, scoredCoalitions, scoreLog>>

vars == <<coreVars, loadVars, uiVars>>

(***************************************************************************)
(* Bounds of the model and constants of the program                        *)
(***************************************************************************)
MaxParties == 6

MaxCoalitionSize == 5

MajorityThreshold == 76

ChamberSeats == 150

AllNames == <<"A", "B", "C", "D", "E", "F", "G", "H">>

SeatChoices == {10, 25, 34, 40, 76}

\* JavaScript null, the default of requiredPartyName
Null == "null"

RECURSIVE SumSeats(_)
SumSeats(list) ==
    IF list = <<>> THEN 0 ELSE list[1].seats + SumSeats(Tail(list))

Min(a, b) == IF a <= b THEN a ELSE b

RECURSIVE Sum(_)
Sum(list) == IF list = <<>> THEN 0 ELSE list[1] + Sum(Tail(list))

\* The rosters loadData can leave in parties: names unique, seats > 0,
\* sorted by seats descending, at most the chamber's seats in total.
SeatLists ==
    { t \in UNION { [1..n -> SeatChoices] : n \in 0..MaxParties } :
        /\ \A i \in 1..(Len(t) - 1) : t[i] >= t[i + 1]
        /\ Sum(t) <= ChamberSeats }

Rosters ==
    { [i \in 1..Len(t) |-> [name |-> AllNames[i], seats |-> t[i]]] : t \in SeatLists }

(***************************************************************************)
(* getCombinations(arr, size), src/app.js 284-296                          *)
(***************************************************************************)
\* The last start index of the loop: i <= arr.length - size
lastStartOffByOne(arr, size) == Len(arr) - size - 1

lastStart(arr, size) == Len(arr) - size

RECURSIVE getCombinations(_, _)
getCombinations(arr, size) ==
    IF size = 1
    THEN [j \in 1..Len(arr) |-> <<arr[j]>>]
    ELSE LET RECURSIVE loop(_)
             \* for (let i = 0; i <= arr.length - size; i++)
             loop(i) ==
                 IF i > lastStart(arr, size)
                 THEN <<>>
                 ELSE LET head == arr[i + 1]
                          tailCombos == getCombinations(SubSeq(arr, i + 2, Len(arr)), size - 1)
                      IN  [j \in 1..Len(tailCombos) |-> <<head>> \o tailCombos[j]]
                              \o loop(i + 1)
         IN  loop(0)

(***************************************************************************)
(* generateMajorityCoalitions(requiredPartyName), src/app.js 249-282       *)
(***************************************************************************)
TruthyUnlessNull(x) == x # Null

\* JavaScript truthiness of a string-or-null argument
Truthy(x) == x # Null /\ x # ""

SelectByName(list, nm, keep) ==
    LET Test(p) == (p.name = nm) = keep IN SelectSeq(list, Test)

requiredPartiesOf(requiredPartyName) ==
    IF Truthy(requiredPartyName) THEN SelectByName(parties, requiredPartyName, TRUE) ELSE <<>>

availablePartiesUnfiltered(requiredPartyName) == parties

availablePartiesOf(requiredPartyName) ==
    IF Truthy(requiredPartyName) THEN SelectByName(parties, requiredPartyName, FALSE) ELSE parties

maxSizeIgnoringRequired(requiredPartyName) ==
    Min(MaxCoalitionSize, Len(availablePartiesOf(requiredPartyName)))

\* Math.min(5 - requiredParties.length, availableParties.length)
maxSizeOf(requiredPartyName) ==
    Min(MaxCoalitionSize - Len(requiredPartiesOf(requiredPartyName)),
        Len(availablePartiesOf(requiredPartyName)))

requiredNotFoundIgnored(requiredPartyName) == FALSE

\* if (requiredPartyName && requiredParties.length === 0) return coalitions
requiredNotFound(requiredPartyName) ==
    Truthy(requiredPartyName) /\ Len(requiredPartiesOf(requiredPartyName)) = 0

\* Every coalition the two nested loops form, before the seat test
enumeratedCoalitions(requiredPartyName) ==
    LET requiredParties == requiredPartiesOf(requiredPartyName)
        availableParties == availablePartiesOf(requiredPartyName)
        maxSize == maxSizeOf(requiredPartyName)
        RECURSIVE bySize(_)
        bySize(size) ==
            IF size > maxSize
            THEN <<>>
            ELSE LET combinations == getCombinations(availableParties, size)
                 IN  [j \in 1..Len(combinations) |-> requiredParties \o combinations[j]]
                         \o bySize(size + 1)
    IN  IF requiredNotFound(requiredPartyName)
        THEN <<>>
        ELSE bySize(1)

HasHalfOfChamber(coalition) == 2 * SumSeats(coalition) >= ChamberSeats

HasStrictlyMore(coalition) == SumSeats(coalition) > MajorityThreshold

\* if (seats >= 76)
HasMajority(coalition) == SumSeats(coalition) >= MajorityThreshold

generateFromSizeTwo(requiredPartyName) ==
    LET AtLeastTwo(coalition) == Len(coalition) >= 2 /\ HasMajority(coalition)
    IN  SelectSeq(enumeratedCoalitions(requiredPartyName), AtLeastTwo)

generateMajorityCoalitions(requiredPartyName) ==
    SelectSeq(enumeratedCoalitions(requiredPartyName), HasMajority)

(***************************************************************************)
(* generateMajorityCoalitions() of the first version of the program,       *)
(* src/unnamed/part_000 177-193: no required party, sizes from 2           *)
(***************************************************************************)
firstVersionCoalitions ==
    LET n == Len(parties)
        RECURSIVE bySize(_)
        \* for (let size = 2; size <= Math.min(5, n); size++)
        bySize(size) ==
            IF size > Min(5, n)
            THEN <<>>
            ELSE getCombinations(parties, size) \o bySize(size + 1)
        AtLeast76(combo) == SumSeats(combo) >= 76
    IN  SelectSeq(bySize(2), AtLeast76)

(***************************************************************************)
(* Numbers: exact fractions for the finite doubles, d = 0 for NaN and      *)
(* Infinity                                                                *)
(***************************************************************************)
RECURSIVE Gcd(_, _)
Gcd(a, b) == IF b = 0 THEN a ELSE Gcd(b, a % b)

Abs(a) == IF a < 0 THEN -a ELSE a

\* The fraction n / d in lowest terms, d > 0
Rat(n, d) ==
    LET g == Gcd(Abs(n), d) IN [n |-> n \div g, d |-> d \div g]

Num(k) == [n |-> k, d |-> 1]

RatAdd(x, y) == Rat(x.n * y.d + y.n * x.d, x.d * y.d)

RatSub(x, y) == Rat(x.n * y.d - y.n * x.d, x.d * y.d)

RatMul(x, y) == Rat(x.n * y.n, x.d * y.d)

RatLeq(x, y) == x.n * y.d <= y.n * x.d

RatLess(x, y) == x.n * y.d < y.n * x.d

NaN == [n |-> 0, d |-> 0]

Infinity == [n |-> 1, d |-> 0]

IsFinite(x) == x.d # 0

\* x / y for a finite y >= 0: 0 / 0 is NaN, x / 0 is Infinity for x > 0
jsDiv(x, y) ==
    IF ~IsFinite(x) THEN x
    ELSE IF y.n = 0 THEN (IF x.n = 0 THEN NaN ELSE Infinity)
    ELSE Rat(x.n * y.d, x.d * y.n)

\* x - y, x + y, x * y for a finite y (y > 0 in the product)
jsSub(x, y) == IF ~IsFinite(x) THEN x ELSE RatSub(x, y)

jsAdd(x, y) == IF ~IsFinite(x) THEN x ELSE RatAdd(x, y)

jsMul(x, y) == IF ~IsFinite(x) THEN x ELSE RatMul(x, y)

\* No clamp at 0
jsKeep(x) == x

\* Math.max(0, x): NaN if x is NaN
jsMax0(x) ==
    IF ~IsFinite(x) THEN x
    ELSE IF x.n < 0 THEN Num(0) ELSE x

\* Math.round(x): the nearest integer, halves up; NaN and Infinity stay
jsRound(x) ==
    IF ~IsFinite(x) THEN x ELSE Num((2 * x.n + x.d) \div (2 * x.d))

Max3(a, b, c) ==
    IF a >= b /\ a >= c THEN a ELSE IF b >= c THEN b ELSE c

(***************************************************************************)
(* calculateCoalitionAgreement(coalition), src/app.js 298-349              *)
(***************************************************************************)
HasStanceOrNeutral(statement, name, v) ==
    IF name \in DOMAIN statement.positions /\ statement.positions[name] \in {1, 0, -1}
    THEN statement.positions[name] = v
    ELSE v = 0

\* statement.positions[party.name] === v; a missing entry is undefined
HasStance(statement, name, v) ==
    /\ name \in DOMAIN statement.positions
    /\ statement.positions[name] = v

\* stances.forEach: the seats of the coalition parties whose stance is v
RECURSIVE seatsWithStance(_, _, _)
seatsWithStance(statement, coalition, v) ==
    IF coalition = <<>>
    THEN 0
    ELSE (IF HasStance(statement, coalition[1].name, v) THEN coalition[1].seats ELSE 0)
             + seatsWithStance(statement, Tail(coalition), v)

\* A tally that reads the selection on screen once one is made
agreeSeatsOfSelection(statement, coalition) ==
    LET Selected(p) == p.name \in coalitionParties
    IN  seatsWithStance(statement,
                        IF coalitionParties = {} THEN coalition
                        ELSE SelectSeq(parties, Selected),
                        1)

agreeSeatsOf(statement, coalition) == seatsWithStance(statement, coalition, 1)

neutralSeatsOf(statement, coalition) == seatsWithStance(statement, coalition, 0)

disagreeSeatsOf(statement, coalition) == seatsWithStance(statement, coalition, -1)

totalSeatsOf(statement, coalition) ==
    agreeSeatsOf(statement, coalition) + neutralSeatsOf(statement, coalition)
        + disagreeSeatsOf(statement, coalition)

maxSeatsOf(statement, coalition) ==
    Max3(agreeSeatsOf(statement, coalition), neutralSeatsOf(statement, coalition),
         disagreeSeatsOf(statement, coalition))

\* maxSeats / totalSeats
majorityFractionOf(statement, coalition) ==
    LET agreeSeats == agreeSeatsOf(statement, coalition)
        neutralSeats == neutralSeatsOf(statement, coalition)
        disagreeSeats == disagreeSeatsOf(statement, coalition)
        totalSeats == agreeSeats + neutralSeats + disagreeSeats
        maxSeats == Max3(agreeSeats, neutralSeats, disagreeSeats)
    IN  jsDiv(Num(maxSeats), Num(totalSeats))

agreementScoreUnscaled(statement, coalition) ==
    jsMax0(jsSub(majorityFractionOf(statement, coalition), Rat(1, 2)))

\* Math.max(0, (majorityFraction - 0.5) / 0.5)
agreementScoreOf(statement, coalition) ==
    jsMax0(jsDiv(jsSub(majorityFractionOf(statement, coalition), Rat(1, 2)), Rat(1, 2)))

\* statements.forEach up to statement i: a statement with totalSeats === 0
\* returns before the +=
RECURSIVE totalAgreementScoreUpTo(_, _)
totalAgreementScoreUpTo(i, coalition) ==
    IF i = 0
    THEN Num(0)
    ELSE LET totalAgreementScore == totalAgreementScoreUpTo(i - 1, coalition)
         IN  IF totalSeatsOf(statements[i], coalition) = 0
             THEN totalAgreementScore
             ELSE jsAdd(totalAgreementScore, agreementScoreOf(statements[i], coalition))

totalAgreementScoreOf(coalition) == totalAgreementScoreUpTo(Len(statements), coalition)

recordedStatements(coalition) ==
    { i \in 1..Len(statements) : totalSeatsOf(statements[i], coalition) # 0 }

averageOverRecorded(coalition) ==
    jsDiv(totalAgreementScoreOf(coalition), Num(Cardinality(recordedStatements(coalition))))

\* totalAgreementScore / totalStatements, totalStatements = statements.length
averageAgreementOf(coalition) ==
    jsDiv(totalAgreementScoreOf(coalition), Num(Len(statements)))

sizePenaltyFromOne(coalition) ==
    jsMax0(jsMul(Num(Len(coalition) - 1), Rat(1, 20)))

\* Math.max(0, (coalition.length - 2) * 0.05)
sizePenaltyOf(coalition) ==
    jsMax0(jsMul(Num(Len(coalition) - 2), Rat(1, 20)))

adjustedWithFlatPenalty(coalition) ==
    jsMax0(jsSub(averageAgreementOf(coalition), Rat(1, 20)))

\* Math.max(0, averageAgreement - sizePenalty)
adjustedAgreementOf(coalition) ==
    jsMax0(jsSub(averageAgreementOf(coalition), sizePenaltyOf(coalition)))

calculateCoalitionAgreement(coalition) ==
    LET averageAgreement == averageAgreementOf(coalition)
        adjustedAgreement == adjustedAgreementOf(coalition)
        agreementRate == jsMul(adjustedAgreement, Num(100))
    IN  [agreementRate |-> jsDiv(jsRound(jsMul(agreementRate, Num(10))), Num(10)),
         averageAgreement |-> jsDiv(jsRound(jsMul(averageAgreement, Num(1000))), Num(1000)),
         adjustedAgreement |-> jsDiv(jsRound(jsMul(adjustedAgreement, Num(1000))), Num(1000)),
         coalitionSize |-> Len(coalition),
         totalStatements |-> Len(statements),
         seats |-> SumSeats(coalition)]

(***************************************************************************)
(* The live views of the selection, src/app.js 460-940                     *)
(***************************************************************************)
wholeRosterList(selection) == parties

\* parties.filter(p => coalitionParties.has(p.name))
coalitionPartiesListOf(selection) ==
    LET Selected(p) == p.name \in selection IN SelectSeq(parties, Selected)

NamesOf(list) == [i \in 1..Len(list) |-> list[i].name]

\* renderCoalitionParties: a card for every roster party in the selection
renderCoalitionParties(selection) == NamesOf(coalitionPartiesListOf(selection))

\* A card for every roster party, selected or not
renderWholeRoster(selection) == NamesOf(parties)

\* renderParties: a card for every roster party not in the selection
renderParties(selection) ==
    LET Available(p) == p.name \notin selection IN NamesOf(SelectSeq(parties, Available))

\* calculateCoalitionSeats: parties.forEach, if (coalitionParties.has(party.name))
RECURSIVE calculateCoalitionSeatsFrom(_, _)
calculateCoalitionSeatsFrom(i, selection) ==
    IF i > Len(parties)
    THEN 0
    ELSE (IF parties[i].name \in selection THEN parties[i].seats ELSE 0)
             + calculateCoalitionSeatsFrom(i + 1, selection)

calculateCoalitionSeats(selection) == calculateCoalitionSeatsFrom(1, selection)

\* The marker from half of the chamber's seats
updateCoalitionBarFromHalf(selection) ==
    LET coalitionSeats == calculateCoalitionSeats(selection)
    IN  [coalitionSeats |-> coalitionSeats,
         oppositionSeats |-> ChamberSeats - coalitionSeats,
         textContent |-> IF 2 * coalitionSeats >= ChamberSeats THEN "Meerderheid" ELSE ""]

updateCoalitionBar(selection) ==
    LET coalitionSeats == calculateCoalitionSeats(selection)
    IN  [coalitionSeats |-> coalitionSeats,
         oppositionSeats |-> ChamberSeats - coalitionSeats,
         textContent |-> IF coalitionSeats >= MajorityThreshold THEN "Meerderheid" ELSE ""]

UnifiedPercent == 80

ModeratePercent == 60

unityLevelFromSeventy(agreementRate) ==
    IF RatLeq(Num(UnifiedPercent), agreementRate) THEN "unified"
    ELSE IF RatLeq(Num(70), agreementRate) THEN "moderate"
    ELSE "divided"

\* if (agreementRate >= 80) ... else if (agreementRate >= 60) ... else ...
\* "unified" stands for the handshake emoji, "moderate" for the neutral face,
\* "divided" for the lightning
unityLevel(agreementRate) ==
    IF RatLeq(Num(UnifiedPercent), agreementRate) THEN "unified"
    ELSE IF RatLeq(Num(ModeratePercent), agreementRate) THEN "moderate"
    ELSE "divided"

\* The three seat counters of a view after its forEach over list
stanceSeats(statement, list) ==
    [agreeSeats |-> seatsWithStance(statement, list, 1),
     neutralSeats |-> seatsWithStance(statement, list, 0),
     disagreeSeats |-> seatsWithStance(statement, list, -1)]

totalOf(seats) == seats.agreeSeats + seats.neutralSeats + seats.disagreeSeats

\* (maxSeats / totalSeats) * 100
agreementRateOf(seats) ==
    LET maxSeats == Max3(seats.agreeSeats, seats.neutralSeats, seats.disagreeSeats)
    IN  jsMul(jsDiv(Num(maxSeats), Num(totalOf(seats))), Num(100))

\* The ties resolved to disagree first
majorityStanceDisagreeFirst(seats) ==
    LET maxSeats == Max3(seats.agreeSeats, seats.neutralSeats, seats.disagreeSeats)
    IN  IF maxSeats = seats.disagreeSeats THEN "oneens"
        ELSE IF maxSeats = seats.agreeSeats THEN "eens"
        ELSE "neutraal"

majorityStanceOf(seats) ==
    LET maxSeats == Max3(seats.agreeSeats, seats.neutralSeats, seats.disagreeSeats)
    IN  IF maxSeats = seats.agreeSeats THEN "eens"
        ELSE IF maxSeats = seats.disagreeSeats THEN "oneens"
        ELSE "neutraal"

\* updateAgreementOverview, 510-596: overview is the element as it was
updateAgreementOverview(selection, overview) ==
    LET coalitionPartiesList == coalitionPartiesListOf(selection)
        LevelOf(i) ==
            LET seats == stanceSeats(statements[i], coalitionPartiesList)
            IN  IF totalOf(seats) = 0 THEN "none" ELSE unityLevel(agreementRateOf(seats))
        Count(level) == Cardinality({ i \in 1..Len(statements) : LevelOf(i) = level })
        unified == Count("unified")
        moderate == Count("moderate")
        divided == Count("divided")
        total == unified + moderate + divided
    IN  IF selection = {} \/ coalitionPartiesList = <<>> \/ total = 0
        THEN [overview EXCEPT !.display = "none"]
        ELSE [display |-> "block", unified |-> unified, moderate |-> moderate,
              divided |-> divided]

NoTitle == [percent |-> Num(0), majorityStance |-> "", seats |-> <<>>]

\* updateStatementIndicator, 656-755: indicator is the element as it was
updateStatementIndicator(statement, selection, indicator) ==
    LET coalitionPartiesList == coalitionPartiesListOf(selection)
        seats == stanceSeats(statement, coalitionPartiesList)
        agreementRate == agreementRateOf(seats)
        majorityStance == majorityStanceOf(seats)
        showBorder == majorityStance # "neutraal" /\ RatLeq(Num(ModeratePercent), agreementRate)
        level == unityLevel(agreementRate)
    IN  IF selection = {}
        THEN [textContent |-> "", title |-> NoTitle, borderLeft |-> ""]
        ELSE IF coalitionPartiesList = <<>> \/ totalOf(seats) = 0
        THEN [indicator EXCEPT !.textContent = "", !.borderLeft = ""]
        ELSE [textContent |-> level,
              title |-> [percent |-> jsRound(agreementRate),
                         majorityStance |-> majorityStance,
                         seats |-> IF level = "divided"
                                   THEN <<seats.agreeSeats, seats.neutralSeats,
                                          seats.disagreeSeats>>
                                   ELSE <<>>],
              borderLeft |-> IF ~showBorder THEN ""
                             ELSE IF majorityStance = "eens" THEN "green" ELSE "red"]

\* updateFullBar, 757-790: the whole roster
updateFullBar(statement) == stanceSeats(statement, parties)

\* updateCoalitionBar_Statement, 792-851: parties.forEach with
\* if (coalitionParties.has(party.name))
RECURSIVE selectedWithStanceFrom(_, _, _, _)
selectedWithStanceFrom(i, statement, selection, v) ==
    IF i > Len(parties)
    THEN <<>>
    ELSE (IF parties[i].name \in selection /\ HasStance(statement, parties[i].name, v)
          THEN <<parties[i]>> ELSE <<>>)
             \o selectedWithStanceFrom(i + 1, statement, selection, v)

updateCoalitionBar_Statement(statement, selection) ==
    LET agreeParties == selectedWithStanceFrom(1, statement, selection, 1)
        neutralParties == selectedWithStanceFrom(1, statement, selection, 0)
        disagreeParties == selectedWithStanceFrom(1, statement, selection, -1)
        total == SumSeats(agreeParties) + SumSeats(neutralParties) + SumSeats(disagreeParties)
        NoSeats == [agreeSeats |-> 0, neutralSeats |-> 0, disagreeSeats |-> 0,
                    agreeParties |-> <<>>, neutralParties |-> <<>>, disagreeParties |-> <<>>]
    IN  IF selection = {}
        THEN [text |-> "Geen coalitie geselecteerd"] @@ NoSeats
        ELSE IF total = 0
        THEN [text |-> "Geen data beschikbaar"] @@ NoSeats
        ELSE [text |-> "",
              agreeSeats |-> SumSeats(agreeParties),
              neutralSeats |-> SumSeats(neutralParties),
              disagreeSeats |-> SumSeats(disagreeParties),
              agreeParties |-> NamesOf(agreeParties),
              neutralParties |-> NamesOf(neutralParties),
              disagreeParties |-> NamesOf(disagreeParties)]

\* updateConsistencyBar, 853-940: bar is the element as it was
updateConsistencyBar(statement, selection, bar) ==
    LET coalitionPartiesList == coalitionPartiesListOf(selection)
        seats == stanceSeats(statement, coalitionPartiesList)
        agreementRate == agreementRateOf(seats)
    IN  IF selection = {} \/ coalitionPartiesList = <<>> \/ totalOf(seats) = 0
        THEN [bar EXCEPT !.display = "none"]
        ELSE [display |-> "block",
              label |-> unityLevel(agreementRate),
              badgeText |-> majorityStanceOf(seats),
              percent |-> jsRound(agreementRate),
              agreeSeats |-> seats.agreeSeats,
              neutralSeats |-> seats.neutralSeats,
              disagreeSeats |-> seats.disagreeSeats]

\* createStatementItem, 609-645: the four elements of a statement, empty
BlankItem ==
    [fullBar |-> [agreeSeats |-> 0, neutralSeats |-> 0, disagreeSeats |-> 0],
     coalitionBar |-> [text |-> "", agreeSeats |-> 0, neutralSeats |-> 0, disagreeSeats |-> 0,
                       agreeParties |-> <<>>, neutralParties |-> <<>>,
                       disagreeParties |-> <<>>],
     indicator |-> [textContent |-> "", title |-> NoTitle, borderLeft |-> ""],
     consistencyBar |-> [display |-> "", label |-> "", badgeText |-> "", percent |-> Num(0),
                         agreeSeats |-> 0, neutralSeats |-> 0, disagreeSeats |-> 0]]

\* updateStatementBars, 647-654, on the items as they were
updateStatementBars(selection, items) ==
    [i \in 1..Len(statements) |->
        [fullBar |-> updateFullBar(statements[i]),
         coalitionBar |-> updateCoalitionBar_Statement(statements[i], selection),
         indicator |-> updateStatementIndicator(statements[i], selection, items[i].indicator),
         consistencyBar |->
             updateConsistencyBar(statements[i], selection, items[i].consistencyBar)]]

\* updateUI, 460-466, with the selection as the handler left it
updateUI(selection, document) ==
    [document EXCEPT
        !.coalitionParties = renderCoalitionParties(selection),
        !.availableParties = renderParties(selection),
        !.coalitionBar = updateCoalitionBar(selection),
        !.agreementOverview = updateAgreementOverview(selection, document.agreementOverview),
        !.statementsList = updateStatementBars(selection, document.statementsList)]

(***************************************************************************)
(* findBestCoalitions, src/app.js 222-247, and displayCoalitionSuggestions *)
(***************************************************************************)
TopSuggestions == 5

\* coalitions.map(coalition => ({coalition, score}))
scoreEach(list) ==
    [i \in 1..Len(list) |->
        [coalition |-> list[i], score |-> calculateCoalitionAgreement(list[i])]]

\* A comparator that also puts a before b when their rates are equal
comparesBeforeOrEqual(a, b) ==
    /\ IsFinite(a.score.agreementRate)
    /\ IsFinite(b.score.agreementRate)
    /\ RatLeq(b.score.agreementRate, a.score.agreementRate)

\* The comparator (a, b) => b.score.agreementRate - a.score.agreementRate
\* returns a negative number: a sorts before b. A NaN result counts as 0.
comparesBefore(a, b) ==
    /\ IsFinite(a.score.agreementRate)
    /\ IsFinite(b.score.agreementRate)
    /\ RatLess(b.score.agreementRate, a.score.agreementRate)

\* Array.prototype.sort is stable: item goes behind every element it does
\* not sort before
RECURSIVE insertSorted(_, _)
insertSorted(sorted, item) ==
    IF sorted = <<>>
    THEN <<item>>
    ELSE IF comparesBefore(item, sorted[1])
    THEN <<item>> \o sorted
    ELSE <<sorted[1]>> \o insertSorted(Tail(sorted), item)

RECURSIVE sortByAgreementRate(_)
sortByAgreementRate(list) ==
    IF list = <<>>
    THEN <<>>
    ELSE insertSorted(sortByAgreementRate(SubSeq(list, 1, Len(list) - 1)), list[Len(list)])

\* scoredCoalitions.slice(0, 5)
sliceTop(list) == SubSeq(list, 1, Min(TopSuggestions, Len(list)))

\* A display without the branch for an empty list
displayWithoutEmptyBranch(shown, requiredParty) ==
    [visible |-> TRUE, message |-> "",
     header |-> [top |-> Len(shown), requiredParty |-> requiredParty],
     items |-> <<>>]

\* displayCoalitionSuggestions(scoredCoalitions), 351-409
displayCoalitionSuggestions(shown, requiredParty) ==
    IF shown = <<>>
    THEN [visible |-> TRUE, message |-> "Geen meerderheidscoalities gevonden.",
          header |-> [top |-> 0, requiredParty |-> ""], items |-> <<>>]
    ELSE [visible |-> TRUE, message |-> "",
          header |-> [top |-> Len(shown), requiredParty |-> requiredParty],
          items |-> [i \in 1..Len(shown) |->
                        [coalition |-> shown[i].coalition,
                         score |-> shown[i].score,
                         partyNames |-> NamesOf(shown[i].coalition),
                         averagePercent |->
                             jsRound(jsMul(shown[i].score.averageAgreement, Num(100))),
                         penaltyShown |-> (shown[i].score.coalitionSize - 2) * 5]]]

(***************************************************************************)
(* loadData and initializeApp, src/app.js 26-84, 130-219                   *)
(***************************************************************************)
\* The document before initializeApp
BlankDocument ==
    [availableParties |-> <<>>,
     coalitionParties |-> <<>>,
     coalitionBar |-> [coalitionSeats |-> 0, oppositionSeats |-> 0, textContent |-> ""],
     agreementOverview |-> [display |-> "", unified |-> 0, moderate |-> 0, divided |-> 0],
     statementsList |-> <<>>,
     requiredPartyOptions |-> <<>>,
     suggestions |-> [visible |-> FALSE, message |-> "",
                      header |-> [top |-> 0, requiredParty |-> ""], items |-> <<>>],
     findCoalition |-> [disabled |-> FALSE]]

\* setupEventListeners, 130-174: the handlers it registers
setupEventListeners ==
    {"dragover", "drop", "dragleave", "expandAll", "collapseAll", "findCoalition", "infoButton",
     "modalClose", "infoModal"}

\* populateRequiredPartyDropdown, 206-219
populateRequiredPartyDropdown == <<"">> \o NamesOf(parties)

\* initializeApp, 78-84, on the blank document with the loaded data
initializeApp ==
    [BlankDocument EXCEPT
        !.availableParties = renderParties({}),
        !.statementsList = [i \in 1..Len(statements) |-> BlankItem],
        !.coalitionBar = updateCoalitionBar({}),
        !.requiredPartyOptions = populateRequiredPartyDropdown]

\* The application after a successful loadData, before any user event
Loaded ==
    /\ loadPhase = "ready"
    /\ fetches = 2
    /\ alerts = 0
    /\ listeners = setupEventListeners
    /\ coalitionParties = {}
    /\ dom = initializeApp
    /\ uiArg = <<>>
    /\ scoredCoalitions = <<>>
    /\ scoreLog = <<>>

(***************************************************************************)
(* Operations                                                              *)
(***************************************************************************)
\* The value of score before any call
NoScore ==
    [agreementRate |-> Num(0), averageAgreement |-> Num(0), adjustedAgreement |-> Num(0),
     coalitionSize |-> 0, totalStatements |-> 0, seats |-> 0]

NameSet == { AllNames[i] : i \in 1..Len(AllNames) }

RequiredArgs == {Null, ""} \cup NameSet

CallGenerate(requiredPartyName) ==
    /\ lastOp' = "generate"
    /\ genArg' = requiredPartyName
    /\ coalitions' = generateMajorityCoalitions(requiredPartyName)
    /\ enumerated' = enumeratedCoalitions(requiredPartyName)
    /\ combArg' = 1
    /\ combos' = <<>>
    /\ UNCHANGED <<parties, statements, scoreArg, score, loadVars, uiVars>>

CallGetCombinations(size) ==
    /\ lastOp' = "combinations"
    /\ combArg' = size
    /\ combos' = getCombinations(parties, size)
    /\ genArg' = Null
    /\ coalitions' = <<>>
    /\ enumerated' = <<>>
    /\ UNCHANGED <<parties, statements, scoreArg, score, loadVars, uiVars>>

InitGen ==
    /\ parties \in Rosters
    /\ statements = <<>>
    /\ lastOp = "loaded"
    /\ genArg = Null
    /\ coalitions = <<>>
    /\ enumerated = <<>>
    /\ combArg = 1
    /\ combos = <<>>
    /\ scoreArg = <<>>
    /\ score = NoScore
    /\ Loaded

NextGen ==
    \/ \E requiredPartyName \in RequiredArgs : CallGenerate(requiredPartyName)
    \/ \E size \in 1..(MaxParties + 1) : CallGetCombinations(size)

SpecGen == InitGen /\ [][NextGen]_vars

(***************************************************************************)
(* The scorer on its own: a roster, a statement set, and calls with the    *)
(* coalitions the generator forms from that roster                         *)
(***************************************************************************)
MaxStatements == 2

ScoreSeatLists == { <<76, 40, 34>>, <<40, 30, 20, 10>>, <<30, 30, 30>>, <<50, 25>> }

ScoreRosters ==
    { [i \in 1..Len(t) |-> [name |-> AllNames[i], seats |-> t[i]]] : t \in ScoreSeatLists }

\* Position maps of statements_wide.json: 1 agree, 0 neutral, -1 disagree,
\* no entry for a party without a recorded stance, 2 for a value that is
\* none of the three
StatementPool ==
    { [positions |-> f] : f \in
        { [A |-> 1, B |-> 1, C |-> 1, D |-> 1],
          [A |-> -1, B |-> -1, C |-> -1, D |-> -1],
          [A |-> 1, B |-> 1, C |-> -1, D |-> 0],
          [A |-> 1, B |-> -1, C |-> 0, D |-> 1],
          [A |-> 0, B |-> 0, C |-> -1, D |-> -1],
          [A |-> -1, B |-> 1, C |-> 1],
          [A |-> 2, B |-> 1, C |-> -1, D |-> -1],
          [A |-> 1, C |-> 0],
          << >> } }

StatementSets == UNION { [1..n -> StatementPool] : n \in 0..MaxStatements }

\* The coalitions generateMajorityCoalitions forms from the roster (no
\* required party), before its seat test
ScoreInputs ==
    LET formed == enumeratedCoalitions(Null)
    IN  { formed[j] : j \in 1..Len(formed) }

CallScore(coalition) ==
    /\ lastOp' = "score"
    /\ scoreArg' = coalition
    /\ score' = calculateCoalitionAgreement(coalition)
    /\ UNCHANGED <<parties, statements, genArg, coalitions, enumerated, combArg, combos,
                   loadVars, uiVars>>

InitScore ==
    /\ parties \in ScoreRosters
    /\ statements \in StatementSets
    /\ lastOp = "loaded"
    /\ genArg = Null
    /\ coalitions = <<>>
    /\ enumerated = <<>>
    /\ combArg = 1
    /\ combos = <<>>
    /\ scoreArg = <<>>
    /\ score = NoScore
    /\ Loaded

NextScore == \E coalition \in ScoreInputs : CallScore(coalition)

SpecScore == InitScore /\ [][NextScore]_vars

(***************************************************************************)
(* The application: loadData on DOMContentLoaded, then the user's events   *)
(***************************************************************************)
AppSeatLists == { <<>>, <<40, 30>>, <<76, 40>>, <<45, 45, 30, 30>> }

AppRosters ==
    { [i \in 1..Len(t) |-> [name |-> AllNames[i], seats |-> t[i]]] : t \in AppSeatLists }

\* The statement lists statements_wide.json can hold: none, and three
\* statements with all three stances, a party without an entry and a stance
\* value that is none of 1, 0, -1
AppStatementLists ==
    { <<>>,
      <<[positions |-> [A |-> 1, B |-> 1, C |-> 1, D |-> -1]],
        [positions |-> [A |-> -1, B |-> -1, C |-> 0]],
        [positions |-> [A |-> 1, B |-> 1, C |-> 2, D |-> -1]]>> }

\* The drop zones, and the names a drop can carry: a party card's name, or
\* the empty string of a drag that did not start on a party card
DropZones == {"coalitionParties", "availableParties"}

DropNames == NameSet \cup {""}

\* The choices made in the requiredParty dropdown before a search: none, or
\* the second party of the roster
SearchChoices == {"", AllNames[2]}

registeredRegardless(loaded) == setupEventListeners

\* try { ...; initializeApp() } catch (error) { alert(...) }: the handlers
\* registered when loadData is through
registeredBy(loaded) == IF loaded THEN setupEventListeners ELSE {}

\* DOMContentLoaded: loadData runs up to the await of the first fetch
LoadDataStart ==
    /\ loadPhase = "start"
    /\ loadPhase' = "fetchSeats"
    /\ fetches' = fetches + 1
    /\ lastOp' = "loadData"
    /\ UNCHANGED <<parties, statements, genArg, coalitions, enumerated, combArg, combos,
                   scoreArg, score, alerts, listeners, uiVars>>

\* The seat fetch is answered: loadData runs on to the await of the second
\* fetch, or into its catch block
LoadDataSeats(ok, roster) ==
    /\ loadPhase = "fetchSeats"
    /\ IF ok
       THEN /\ parties' = roster
            /\ fetches' = fetches + 1
            /\ loadPhase' = "fetchStatements"
            /\ UNCHANGED <<alerts, listeners>>
       ELSE /\ alerts' = alerts + 1
            /\ listeners' = registeredBy(FALSE)
            /\ loadPhase' = "failed"
            /\ UNCHANGED <<parties, fetches>>
    /\ lastOp' = "loadData"
    /\ UNCHANGED <<statements, genArg, coalitions, enumerated, combArg, combos,
                   scoreArg, score, uiVars>>

\* The statement fetch is answered: loadData runs initializeApp, or its
\* catch block
LoadDataStatements(ok, list) ==
    /\ loadPhase = "fetchStatements"
    /\ UNCHANGED <<parties, fetches>>
    /\ IF ok
       THEN /\ statements' = list
            /\ dom' = initializeApp'
            /\ listeners' = registeredBy(TRUE)
            /\ loadPhase' = "ready"
            /\ UNCHANGED alerts
       ELSE /\ alerts' = alerts + 1
            /\ listeners' = registeredBy(FALSE)
            /\ loadPhase' = "failed"
            /\ UNCHANGED <<statements, dom>>
    /\ lastOp' = "loadData"
    /\ UNCHANGED <<genArg, coalitions, enumerated, combArg, combos, scoreArg, score,
                   coalitionParties, uiArg, scoredCoalitions, scoreLog>>

\* The selection after handleDrop(e), 449-453
handleDrop(selection, partyName, targetZone) ==
    IF targetZone = "coalitionParties"
    THEN selection \cup {partyName}
    ELSE selection \ {partyName}

\* The names added without clear()
applyWithoutClear(selection, coalition) ==
    selection \cup { coalition[j].name : j \in 1..Len(coalition) }

\* The selection after applyCoalition(coalition), 411-418: clear(), then
\* add(party.name) for each party of the coalition
applyCoalition(selection, coalition) ==
    LET cleared == selection \ selection
    IN  cleared \cup { coalition[j].name : j \in 1..Len(coalition) }

\* handleDrop(e), 439-458: the drag started on one of the party cards
\* (createPartyCard, handleDragStart), or elsewhere and carries no name
HandleDrop(partyName, targetZone) ==
    /\ "drop" \in listeners
    /\ partyName = "" \/ \E k \in 1..Len(dom.availableParties \o dom.coalitionParties) :
                            (dom.availableParties \o dom.coalitionParties)[k] = partyName
    /\ coalitionParties' = handleDrop(coalitionParties, partyName, targetZone)
    /\ dom' = updateUI(coalitionParties', dom)
    /\ lastOp' = "handleDrop"
    /\ uiArg' = <<partyName, targetZone>>
    /\ UNCHANGED <<parties, statements, genArg, coalitions, enumerated, combArg, combos,
                   scoreArg, score, loadVars, scoredCoalitions, scoreLog>>

\* A search that also selects the parties of its best coalition
findAndSelectBest(requiredParty) ==
    /\ "findCoalition" \in listeners
    /\ \E k \in 1..Len(dom.requiredPartyOptions) : dom.requiredPartyOptions[k] = requiredParty
    /\ LET generated == generateMajorityCoalitions(requiredParty)
           sorted == sortByAgreementRate(scoreEach(generated))
       IN  /\ genArg' = requiredParty
           /\ coalitions' = generated
           /\ scoredCoalitions' = sorted
           /\ coalitionParties' =
                  IF sorted = <<>> THEN coalitionParties
                  ELSE { sorted[1].coalition[j].name : j \in 1..Len(sorted[1].coalition) }
           /\ dom' = [dom EXCEPT
                        !.suggestions =
                            displayCoalitionSuggestions(sliceTop(sorted), requiredParty),
                        !.findCoalition = [disabled |-> FALSE]]
           /\ scoreLog' = IF scoreLog = <<>> /\ requiredParty = "" THEN sorted ELSE scoreLog
    /\ lastOp' = "findBestCoalitions"
    /\ uiArg' = <<>>
    /\ UNCHANGED <<parties, statements, enumerated, combArg, combos, scoreArg, score,
                   loadVars>>

\* A click on the findCoalition button with requiredParty chosen in the
\* dropdown: findBestCoalitions(), 222-247
ClickFindCoalition(requiredParty) ==
    /\ "findCoalition" \in listeners
    /\ \E k \in 1..Len(dom.requiredPartyOptions) : dom.requiredPartyOptions[k] = requiredParty
    /\ LET generated == generateMajorityCoalitions(requiredParty)
           sorted == sortByAgreementRate(scoreEach(generated))
       IN  /\ genArg' = requiredParty
           /\ coalitions' = generated
           /\ scoredCoalitions' = sorted
           /\ dom' = [dom EXCEPT
                        !.suggestions =
                            displayCoalitionSuggestions(sliceTop(sorted), requiredParty),
                        !.findCoalition = [disabled |-> FALSE]]
           /\ scoreLog' = IF scoreLog = <<>> /\ requiredParty = "" THEN sorted ELSE scoreLog
    /\ lastOp' = "findBestCoalitions"
    /\ uiArg' = <<>>
    /\ UNCHANGED <<parties, statements, enumerated, combArg, combos, scoreArg, score,
                   loadVars, coalitionParties>>

\* A click on suggestion number i: applyCoalition(coalition), 411-424, then
\* the suggestions are hidden, 400-403
ClickSuggestion(i) ==
    /\ i \in 1..Len(dom.suggestions.items)
    /\ LET coalition == dom.suggestions.items[i].coalition
       IN  /\ coalitionParties' = applyCoalition(coalitionParties, coalition)
           /\ dom' = [updateUI(coalitionParties', dom) EXCEPT !.suggestions.visible = FALSE]
           /\ uiArg' = <<coalition>>
    /\ lastOp' = "applyCoalition"
    /\ UNCHANGED <<parties, statements, genArg, coalitions, enumerated, combArg, combos,
                   scoreArg, score, loadVars, scoredCoalitions, scoreLog>>

InitApp ==
    /\ parties = <<>>
    /\ statements = <<>>
    /\ lastOp = "script"
    /\ genArg = Null
    /\ coalitions = <<>>
    /\ enumerated = <<>>
    /\ combArg = 1
    /\ combos = <<>>
    /\ scoreArg = <<>>
    /\ score = NoScore
    /\ loadPhase = "start"
    /\ fetches = 0
    /\ alerts = 0
    /\ listeners = {}
    /\ coalitionParties = {}
    /\ dom = BlankDocument
    /\ uiArg = <<>>
    /\ scoredCoalitions = <<>>
    /\ scoreLog = <<>>

NextApp ==
    \/ LoadDataStart
    \/ \E ok \in BOOLEAN, roster \in AppRosters : LoadDataSeats(ok, roster)
    \/ \E ok \in BOOLEAN, list \in AppStatementLists : LoadDataStatements(ok, list)
    \/ \E partyName \in DropNames, targetZone \in DropZones : HandleDrop(partyName, targetZone)
    \/ \E requiredParty \in SearchChoices : ClickFindCoalition(requiredParty)
    \/ \E i \in 1..TopSuggestions : ClickSuggestion(i)

SpecApp == InitApp /\ [][NextApp]_vars

(***************************************************************************)
(* Properties of the generator                                             *)
(***************************************************************************)
RosterNames == { parties[i].name : i \in 1..Len(parties) }

MemberNames(coalition) == { coalition[i].name : i \in 1..Len(coalition) }

\* The seats of the roster parties whose names are in S
RECURSIVE SeatsOfNames(_)
SeatsOfNames(S) ==
    IF S = {} THEN 0
    ELSE LET nm == CHOOSE x \in S : TRUE
             own == { i \in 1..Len(parties) : parties[i].name = nm }
         IN  (IF own = {} THEN 0 ELSE parties[CHOOSE i \in own : TRUE].seats)
                 + SeatsOfNames(S \ {nm})

RECURSIVE Binomial(_, _)
Binomial(n, k) ==
    IF k = 0 THEN 1
    ELSE IF k > n THEN 0
    ELSE Binomial(n - 1, k - 1) + Binomial(n - 1, k)

Generated == lastOp = "generate"

\* C1: every coalition generateMajorityCoalitions returns has at least 76
\* seats, for every roster and every required-party argument.
C1_MajorityFilter ==
    Generated =>
        \A i \in 1..Len(coalitions) :
            /\ MemberNames(coalitions[i]) \subseteq RosterNames
            /\ SeatsOfNames(MemberNames(coalitions[i])) >= 76

\* A call that returned a coalition and dropped an enumerated one that has
\* 75 seats, one short of the majority.
C1_Witness ==
    /\ Generated
    /\ Len(coalitions) > 0
    /\ \E j \in 1..Len(enumerated) :
           /\ SeatsOfNames(MemberNames(enumerated[j])) = 75
           /\ \A i \in 1..Len(coalitions) : coalitions[i] # enumerated[j]

\* C2: with a required party that is in the roster, every returned
\* coalition contains that party exactly once.
C2_RequiredIncluded ==
    (Generated /\ Truthy(genArg) /\ genArg \in RosterNames) =>
        \A i \in 1..Len(coalitions) :
            Cardinality({ j \in 1..Len(coalitions[i]) : coalitions[i][j].name = genArg }) = 1

C2_Witness ==
    /\ Generated
    /\ Truthy(genArg)
    /\ genArg \in RosterNames
    /\ Len(coalitions) >= 2
    /\ genArg # parties[1].name

\* C3: with a non-empty required name that matches no roster party, the
\* result is the empty list and no combination is enumerated.
C3_UnknownRequiredEmpty ==
    (Generated /\ genArg # Null /\ genArg # "" /\ genArg \notin RosterNames) =>
        /\ coalitions = <<>>
        /\ enumerated = <<>>

\* The roster alone could form majorities, yet the unknown name empties the result.
C3_Witness ==
    /\ Generated
    /\ genArg # Null /\ genArg # ""
    /\ genArg \notin RosterNames
    /\ SeatsOfNames(RosterNames) >= 76
    /\ coalitions = <<>>

\* C4: getCombinations(arr, k) on n distinct parties returns exactly C(n,k)
\* lists of k distinct elements of arr, pairwise different as sets, for
\* 1 <= k <= n, and the empty list for k > n.
C4_CombinationsComplete ==
    lastOp = "combinations" =>
        LET n == Len(parties)
            k == combArg
        IN  IF k > n
            THEN combos = <<>>
            ELSE /\ Len(combos) = Binomial(n, k)
                 /\ \A i \in 1..Len(combos) :
                        /\ Len(combos[i]) = k
                        /\ Cardinality(MemberNames(combos[i])) = k
                        /\ \A j \in 1..k : \E m \in 1..n : combos[i][j] = parties[m]
                 /\ \A i, j \in 1..Len(combos) :
                        i # j => MemberNames(combos[i]) # MemberNames(combos[j])

C4_Witness ==
    /\ lastOp = "combinations"
    /\ Len(parties) = 5
    /\ combArg = 3
    /\ Len(combos) = 10

\* The subsets of the roster the claim C5 describes
ExpectedCoalitions ==
    LET required == IF Truthy(genArg) THEN {genArg} ELSE {}
    IN  { S \in SUBSET RosterNames :
            /\ required \subseteq S
            /\ Cardinality(S \ required) >= 1
            /\ Cardinality(S \ required) <= 5 - Cardinality(required)
            /\ SeatsOfNames(S) >= 76 }

\* C5: the result is exactly the set of majority subsets within the size
\* bound, each once; the required party on its own is never returned.
C5_ExactResult ==
    Generated =>
        /\ { MemberNames(coalitions[i]) : i \in 1..Len(coalitions) } = ExpectedCoalitions
        /\ \A i, j \in 1..Len(coalitions) :
               i # j => MemberNames(coalitions[i]) # MemberNames(coalitions[j])
        /\ \A i \in 1..Len(coalitions) :
               Cardinality(MemberNames(coalitions[i])) = Len(coalitions[i])
        /\ Truthy(genArg) => \A i \in 1..Len(coalitions) : MemberNames(coalitions[i]) # {genArg}

\* The required party has a majority alone, is not returned alone, and
\* coalitions around it are returned.
C5_Witness ==
    /\ Generated
    /\ Truthy(genArg)
    /\ SeatsOfNames({genArg}) >= 76
    /\ Len(coalitions) > 0
    /\ \A i \in 1..Len(coalitions) : Len(coalitions[i]) >= 2

\* C6: no returned coalition has more than 5 parties, the required one counted.
C6_SizeBound ==
    Generated => \A i \in 1..Len(coalitions) : Len(coalitions[i]) <= 5

\* A roster of more than 5 parties that has a majority together, a required
\* party, and a returned coalition of exactly 5.
C6_Witness ==
    /\ Generated
    /\ Truthy(genArg)
    /\ genArg \in RosterNames
    /\ Len(parties) > 5
    /\ \E i \in 1..Len(coalitions) : Len(coalitions[i]) = 5

(***************************************************************************)
(* Properties of the scorer                                                *)
(***************************************************************************)
Scored == lastOp = "score"

ScoreFields == <<score.agreementRate, score.averageAgreement, score.adjustedAgreement>>

\* The seats of the members of scoreArg whose recorded stance on statement
\* number s is v
RECURSIVE SeatsAt(_)
SeatsAt(I) ==
    IF I = {} THEN 0
    ELSE LET i == CHOOSE x \in I : TRUE IN scoreArg[i].seats + SeatsAt(I \ {i})

Bucket(s, v) ==
    SeatsAt({ i \in 1..Len(scoreArg) :
                /\ scoreArg[i].name \in DOMAIN statements[s].positions
                /\ statements[s].positions[scoreArg[i].name] = v })

Recorded(s) == Bucket(s, 1) + Bucket(s, 0) + Bucket(s, -1)

NoStanceRecorded == \A s \in 1..Len(statements) : Recorded(s) = 0

\* C7: agreementRate is a number in [0, 100] for all inputs, and 0 (not
\* NaN) for a coalition with no recorded stance on any statement.
C7_RateBounded ==
    Scored =>
        /\ IsFinite(score.agreementRate)
        /\ RatLeq(Num(0), score.agreementRate)
        /\ RatLeq(score.agreementRate, Num(100))
        /\ NoStanceRecorded => score.agreementRate = Num(0)

\* C8: division by zero is guarded: with an empty statement set or a
\* coalition without seats, agreementRate, averageAgreement and
\* adjustedAgreement are 0, never NaN or infinity.
C8_DivisionGuarded ==
    Scored =>
        /\ \A k \in 1..3 : IsFinite(ScoreFields[k])
        /\ (Len(statements) = 0 \/ score.seats = 0) =>
               \A k \in 1..3 : ScoreFields[k] = Num(0)

\* The term of statement s in the sum of C9: max(0, (maxBucket/totalSeats - 0.5)/0.5),
\* and 0 when no member has a recorded stance
StatementTerm(s) ==
    IF Recorded(s) = 0
    THEN Num(0)
    ELSE LET m == Max3(Bucket(s, 1), Bucket(s, 0), Bucket(s, -1))
         IN  IF 2 * m >= Recorded(s) THEN Rat(2 * m - Recorded(s), Recorded(s)) ELSE Num(0)

RECURSIVE TermSum(_)
TermSum(s) == IF s = 0 THEN Num(0) ELSE RatAdd(TermSum(s - 1), StatementTerm(s))

\* max(0, A - max(0, (n - 2) * 0.05)) with A = TermSum / T
ExpectedAdjusted ==
    LET n == Len(scoreArg)
        A == RatMul(TermSum(Len(statements)), Rat(1, Len(statements)))
        pen == IF n > 2 THEN Rat(n - 2, 20) ELSE Num(0)
    IN  IF RatLeq(pen, A) THEN RatSub(A, pen) ELSE Num(0)

\* C9: for T >= 1 statements, agreementRate is 100 * max(0, A - penalty)
\* rounded to one decimal: it is k/10 for the integer k nearest to
\* 1000 * max(0, A - penalty), halves up.
C9_RateFormula ==
    (Scored /\ Len(statements) >= 1) =>
        /\ IsFinite(score.agreementRate)
        /\ 10 % score.agreementRate.d = 0
        /\ LET k == score.agreementRate.n * (10 \div score.agreementRate.d)
           IN  /\ RatLeq(Rat(2 * k - 1, 2000), ExpectedAdjusted)
               /\ RatLess(ExpectedAdjusted, Rat(2 * k + 1, 2000))

\* Three parties, one statement without any recorded stance of theirs next to
\* one with a recorded stance, and a rate that needed rounding.
C9_Witness ==
    /\ Scored
    /\ Len(scoreArg) = 3
    /\ Len(statements) = 2
    /\ \E s \in 1..2 : Recorded(s) = 0
    /\ RatLess(Num(0), score.agreementRate)
    /\ 1000 % ExpectedAdjusted.d # 0

\* The score is above 0, so Math.max(0, averageAgreement - sizePenalty) did
\* not clamp it
NotClamped(result) ==
    IsFinite(result.agreementRate) /\ RatLess(Num(0), result.agreementRate)

Max2(a, b) == IF a >= b THEN a ELSE b

\* The coalitions to compare the scored one with: as many or more parties,
\* the same averageAgreement, neither score clamped at 0
Comparable(c2) ==
    /\ IsFinite(score.averageAgreement)
    /\ Len(c2) >= Len(scoreArg)
    /\ calculateCoalitionAgreement(c2).averageAgreement = score.averageAgreement
    /\ NotClamped(score)
    /\ NotClamped(calculateCoalitionAgreement(c2))

RateDifference(c2) ==
    RatSub(score.agreementRate, calculateCoalitionAgreement(c2).agreementRate)

\* C10 as stated: with the same averageAgreement the larger coalition's rate
\* is lower by 5 points per party of size difference, for every pair of
\* sizes, size 1 versus size 2 included.
C10_FivePointsPerParty ==
    Scored =>
        \A c2 \in ScoreInputs :
            Comparable(c2) => RateDifference(c2) = Num(5 * (Len(c2) - Len(scoreArg)))

\* C10 amended: the difference is 5 points per party of size difference
\* counted beyond two parties; sizes 1 and 2 carry the same (zero) penalty.
C10_FivePointsBeyondTwo ==
    Scored =>
        \A c2 \in ScoreInputs :
            Comparable(c2) =>
                RateDifference(c2) = Num(5 * (Max2(Len(c2), 2) - Max2(Len(scoreArg), 2)))

\* A single party scored, with a pair and a trio of the same averageAgreement:
\* the pair's rate is the same, the trio's is 5 points lower.
C10_Witness ==
    /\ Scored
    /\ Len(scoreArg) = 1
    /\ RatLess(Num(0), score.averageAgreement)
    /\ \E c2, c3 \in ScoreInputs :
           /\ Len(c2) = 2 /\ Len(c3) = 3
           /\ Comparable(c2) /\ Comparable(c3)
           /\ RateDifference(c2) = Num(0)
           /\ RateDifference(c3) = Num(5)

\* The members of scoreArg whose stance on statement number s is missing or
\* is a value other than 1, 0 and -1
Untallied(s) ==
    { i \in 1..Len(scoreArg) :
        \/ scoreArg[i].name \notin DOMAIN statements[s].positions
        \/ statements[s].positions[scoreArg[i].name] \notin {1, 0, -1} }

TallyOf(statement, coalition) ==
    <<agreeSeatsOf(statement, coalition), neutralSeatsOf(statement, coalition),
      disagreeSeatsOf(statement, coalition)>>

WithoutMember(coalition, i) ==
    SubSeq(coalition, 1, i - 1) \o SubSeq(coalition, i + 1, Len(coalition))

\* The statement with the stance of party nm set to neutral
AsNeutral(statement, nm) ==
    [positions |->
        [x \in DOMAIN statement.positions \cup {nm} |->
            IF x = nm THEN 0 ELSE statement.positions[x]]]

\* What the statement adds to totalAgreementScore
StatementScore(statement, coalition) ==
    IF totalSeatsOf(statement, coalition) = 0
    THEN Num(0)
    ELSE agreementScoreOf(statement, coalition)

RECURSIVE ScoreSumWith(_, _, _)
ScoreSumWith(i, s, term) ==
    IF i = 0 THEN Num(0)
    ELSE jsAdd(ScoreSumWith(i - 1, s, term),
               IF i = s THEN term ELSE StatementScore(statements[i], scoreArg))

\* The agreementRate of scoreArg when statement number s adds term to the sum
RateWithTerm(s, term) ==
    LET averageAgreement == jsDiv(ScoreSumWith(Len(statements), s, term), Num(Len(statements)))
        adjustedAgreement == jsMax0(jsSub(averageAgreement, sizePenaltyOf(scoreArg)))
    IN  jsDiv(jsRound(jsMul(jsMul(adjustedAgreement, Num(100)), Num(10))), Num(10))

\* The party is left out of the three buckets of the statement, and the score
\* is the one with the party removed from that statement's tally
ExcludedFromTally(s, i) ==
    /\ TallyOf(statements[s], scoreArg) = TallyOf(statements[s], WithoutMember(scoreArg, i))
    /\ score.agreementRate =
           RateWithTerm(s, StatementScore(statements[s], WithoutMember(scoreArg, i)))

NeutralShare(s, i) == majorityFractionOf(AsNeutral(statements[s], scoreArg[i].name), scoreArg)

NeutralTerm(s, i) == StatementScore(AsNeutral(statements[s], scoreArg[i].name), scoreArg)

ShareChanges(s, i) == NeutralShare(s, i) # majorityFractionOf(statements[s], scoreArg)

\* C11 as stated: a party with a missing or other stance adds to no bucket,
\* the score is that of the tally without the party, and the score differs
\* from the one with the party as neutral whenever that changes the largest
\* bucket's share.
C11_DiffersWheneverShareChanges ==
    Scored =>
        \A s \in 1..Len(statements) : \A i \in Untallied(s) :
            /\ ExcludedFromTally(s, i)
            /\ ShareChanges(s, i) => score.agreementRate # RateWithTerm(s, NeutralTerm(s, i))

\* C11 amended: the same exclusion; the statement's term max(0, (f - 0.5) / 0.5)
\* differs from the one with the party as neutral whenever the share changes
\* and one of the two shares is above 0.5; with both shares at 0.5 or less
\* both terms are 0 and the score is the same.
C11_ExcludedFromTally ==
    Scored =>
        \A s \in 1..Len(statements) : \A i \in Untallied(s) :
            LET f == majorityFractionOf(statements[s], scoreArg)
                fn == NeutralShare(s, i)
                t == StatementScore(statements[s], scoreArg)
                tn == NeutralTerm(s, i)
            IN  /\ ExcludedFromTally(s, i)
                /\ (ShareChanges(s, i) /\ (RatLess(Rat(1, 2), f) \/ RatLess(Rat(1, 2), fn)))
                       => t # tn
                /\ (RatLeq(f, Rat(1, 2)) /\ RatLeq(fn, Rat(1, 2)))
                       => /\ t = Num(0) /\ tn = Num(0)
                          /\ score.agreementRate = RateWithTerm(s, tn)

\* A coalition scored with a member whose stance value is 2 on one statement
\* and a member without an entry on another, the score differing from the
\* one with the first member as neutral.
C11_Witness ==
    /\ Scored
    /\ \E s \in 1..Len(statements) : \E i \in Untallied(s) :
           /\ scoreArg[i].name \in DOMAIN statements[s].positions
           /\ statements[s].positions[scoreArg[i].name] = 2
           /\ ShareChanges(s, i)
           /\ score.agreementRate # RateWithTerm(s, NeutralTerm(s, i))
    /\ \E s \in 1..Len(statements) : \E i \in Untallied(s) :
           /\ scoreArg[i].name \notin DOMAIN statements[s].positions
           /\ totalSeatsOf(statements[s], scoreArg) > 0

(***************************************************************************)
(* The example scenarios: roster A = 76, B = 40, C = 34                    *)
(***************************************************************************)
ExampleRoster ==
    <<[name |-> "A", seats |-> 76], [name |-> "B", seats |-> 40], [name |-> "C", seats |-> 34]>>

NameSetsOf(list) == { MemberNames(list[i]) : i \in 1..Len(list) }

\* The coalitions of the list that have at most 2 parties
UpToTwo(list) == LET Small(coalition) == Len(coalition) <= 2 IN SelectSeq(list, Small)

ExampleGenerated == Generated /\ ~Truthy(genArg) /\ parties = ExampleRoster

\* C14 as stated: for the example roster without a required party, the
\* returned coalitions of at most 2 parties are exactly {A,B} and {A,C};
\* {A} alone and {B,C} are not returned.
C14_PairsOnly ==
    ExampleGenerated =>
        /\ NameSetsOf(UpToTwo(coalitions)) = {{"A", "B"}, {"A", "C"}}
        /\ {"A"} \notin NameSetsOf(coalitions)
        /\ {"B", "C"} \notin NameSetsOf(coalitions)

\* C14 amended: the current generator starts at size 1, so {A} alone (76
\* seats) is returned before {A,B} and {A,C}; {B,C} (74) is not returned.
\* The first version of the generator started at size 2 and returned the
\* pairs {A,B} and {A,C} only.
C14_SingleThenPairs ==
    ExampleGenerated =>
        /\ UpToTwo(coalitions) =
               <<SubSeq(parties, 1, 1), SubSeq(parties, 1, 2), <<parties[1], parties[3]>>>>
        /\ {"B", "C"} \notin NameSetsOf(coalitions)
        /\ \A i \in 1..Len(coalitions) : SeatsOfNames(MemberNames(coalitions[i])) >= 76
        /\ NameSetsOf(UpToTwo(firstVersionCoalitions)) = {{"A", "B"}, {"A", "C"}}

\* The example roster, no required party: {A}, {A,B}, {A,C}, {A,B,C} returned,
\* {B,C} enumerated and dropped.
C14_Witness ==
    /\ ExampleGenerated
    /\ Len(coalitions) = 4
    /\ \E j \in 1..Len(enumerated) : MemberNames(enumerated[j]) = {"B", "C"}

\* The statement of the examples: A agree, B agree, C disagree
IsExampleStatement(statement) ==
    /\ HasStance(statement, "A", 1)
    /\ HasStance(statement, "B", 1)
    /\ HasStance(statement, "C", -1)

ExampleScored(n) ==
    /\ Scored
    /\ parties = ExampleRoster
    /\ Len(statements) = 1
    /\ IsExampleStatement(statements[1])
    /\ scoreArg = SubSeq(parties, 1, n)

\* C15 as stated: the example statement and the coalition {A,B,C} tally
\* agreeSeats = 76, disagreeSeats = 34, totalSeats = 110 and score 33.2.
C15_ExampleAsStated ==
    ExampleScored(3) =>
        /\ Bucket(1, 1) = 76
        /\ Bucket(1, -1) = 34
        /\ Recorded(1) = 110
        /\ score.agreementRate = Rat(332, 10)

\* C15 amended: B agrees as well, so agreeSeats = 116, disagreeSeats = 34,
\* totalSeats = 150, the share is 116/150, averageAgreement 0.547, and the
\* agreementRate is 49.7 after the 5 points for size 3.
C15_ExampleTally ==
    ExampleScored(3) =>
        /\ Bucket(1, 1) = 116 /\ Bucket(1, 0) = 0 /\ Bucket(1, -1) = 34
        /\ TallyOf(statements[1], scoreArg) = <<116, 0, 34>>
        /\ totalSeatsOf(statements[1], scoreArg) = 150
        /\ majorityFractionOf(statements[1], scoreArg) = Rat(116, 150)
        /\ score.averageAgreement = Rat(547, 1000)
        /\ score.adjustedAgreement = Rat(497, 1000)
        /\ score.agreementRate = Rat(497, 10)

C15_Witness ==
    /\ ExampleScored(3)
    /\ score.coalitionSize = 3
    /\ score.seats = 150

\* Every statement has the same recorded stance of all members of scoreArg
Unanimous ==
    \A s \in 1..Len(statements) :
        \E v \in {1, 0, -1} :
            \A i \in 1..Len(scoreArg) : HasStance(statements[s], scoreArg[i].name, v)

ExamplePair ==
    ExampleScored(2) =>
        /\ TallyOf(statements[1], scoreArg) = <<116, 0, 0>>
        /\ totalSeatsOf(statements[1], scoreArg) = 116
        /\ sizePenaltyOf(scoreArg) = Num(0)
        /\ score.agreementRate = Num(100)

\* C16 as stated: the example pair {A,B} scores 100.0, and any 2-party
\* coalition that is unanimous on every statement scores exactly 100.0.
C16_UnanimousPairAnySet ==
    /\ ExamplePair
    /\ (Scored /\ Len(scoreArg) = 2 /\ Unanimous) => score.agreementRate = Num(100)

\* C16 amended: the same for a statement set that is not empty.
C16_UnanimousPair ==
    /\ ExamplePair
    /\ (Scored /\ Len(scoreArg) = 2 /\ Unanimous /\ Len(statements) >= 1)
           => score.agreementRate = Num(100)

\* The example pair scored on the example statement
C16_Witness ==
    /\ ExampleScored(2)
    /\ Unanimous
    /\ score.agreementRate = Num(100)

\* C19: generateMajorityCoalitions("") returns the same list, in the same
\* order, as generateMajorityCoalitions() without a required party: of two
\* calls in a row, one with each argument, the results are equal.
C19_EmptyNameIsNoRequirement ==
    [][(Generated /\ lastOp' = "generate" /\ {genArg, genArg'} = {Null, ""})
          => (coalitions' = coalitions /\ enumerated' = enumerated)]_vars

\* A call with the empty string that returned several coalitions
C19_Witness ==
    /\ Generated
    /\ genArg = ""
    /\ Len(coalitions) >= 3
    /\ Len(coalitions) < Len(enumerated)

(***************************************************************************)
(* Properties of the search, findBestCoalitions                            *)
(***************************************************************************)
SearchDone == lastOp = "findBestCoalitions"

Presented == dom.suggestions.items

\* x >= y for two agreement rates; no order holds for NaN
RateGeq(x, y) == IsFinite(x) /\ IsFinite(y) /\ RatLeq(y, x)

PositionIn(list, c) == CHOOSE k \in 1..Len(list) : list[k] = c

\* The generated coalitions that are not presented
NotPresented ==
    { k \in 1..Len(coalitions) :
        \A i \in 1..Len(Presented) : Presented[i].coalition # coalitions[k] }

ScoreIn(list, c) == list[CHOOSE k \in 1..Len(list) : list[k].coalition = c].score

SuggestionsRanked ==
    /\ Len(Presented) <= 5
    /\ \A i \in 1..Len(Presented) :
           \E k \in 1..Len(coalitions) : coalitions[k] = Presented[i].coalition
    /\ \A i, j \in 1..Len(Presented) :
           i < j => RateGeq(Presented[i].score.agreementRate, Presented[j].score.agreementRate)
    /\ \A i \in 1..Len(Presented) : \A k \in NotPresented :
           RateGeq(Presented[i].score.agreementRate,
                   ScoreIn(scoredCoalitions, coalitions[k]).agreementRate)
    /\ \A i, j \in 1..Len(Presented) :
           (i < j /\ Presented[i].score.agreementRate = Presented[j].score.agreementRate)
               => PositionIn(coalitions, Presented[i].coalition)
                      < PositionIn(coalitions, Presented[j].coalition)
    /\ \A i \in 1..Len(Presented) :
           /\ Presented[i].score.seats = SeatsOfNames(MemberNames(Presented[i].coalition))
           /\ Presented[i].score.seats >= 76

\* C12: findBestCoalitions presents at most 5 results in descending order of
\* agreementRate, each with a rate >= that of every generated coalition left
\* out, equal rates in the generator's order, and seats = the seat sum >= 76.
C12_TopFiveRanked == SearchDone => SuggestionsRanked

\* The same for a statement set that is not empty
RankedGivenStatements == (SearchDone /\ Len(statements) >= 1) => SuggestionsRanked

\* A search over statements that left a coalition out whose rate ties with
\* the last one presented, and that moved a coalition forward
RankedGivenStatementsReached ==
    /\ SearchDone
    /\ Len(statements) >= 1
    /\ Len(Presented) = 5
    /\ \E k \in NotPresented :
           ScoreIn(scoredCoalitions, coalitions[k]).agreementRate
               = Presented[5].score.agreementRate
    /\ \E i \in 1..4 :
           PositionIn(coalitions, Presented[i].coalition)
               > PositionIn(coalitions, Presented[i + 1].coalition)

\* C13: scoring is repeatable: every coalition scored by the search that ran
\* last has, in every field, the score it got in the first search without a
\* required party, whatever drops, applied suggestions and other searches
\* came in between and in whatever order its parties are listed.
C13_ScoringRepeatable ==
    \A i \in 1..Len(scoredCoalitions) : \A j \in 1..Len(scoreLog) :
        MemberNames(scoredCoalitions[i].coalition) = MemberNames(scoreLog[j].coalition)
            => scoredCoalitions[i].score = scoreLog[j].score

\* A search with a required party that is not the first of the roster, after
\* the logged search and with a selection made since, scoring coalitions of
\* the log again.
C13_Witness ==
    /\ SearchDone
    /\ Truthy(genArg)
    /\ genArg # parties[1].name
    /\ coalitionParties # {}
    /\ Len(statements) >= 1
    /\ Len(scoreLog) >= 2
    /\ \E i \in 1..Len(scoredCoalitions) : \E j \in 1..Len(scoreLog) :
           /\ MemberNames(scoredCoalitions[i].coalition) = MemberNames(scoreLog[j].coalition)
           /\ scoredCoalitions[i].coalition # scoreLog[j].coalition
           /\ RatLess(Num(0), scoredCoalitions[i].score.agreementRate)

(***************************************************************************)
(* Properties of the live views                                            *)
(***************************************************************************)
\* The seats of the selected roster parties whose stance on statement
\* number s is v
SelectedBucket(s, v) ==
    SeatsOfNames({ nm \in coalitionParties \cap RosterNames :
                     /\ nm \in DOMAIN statements[s].positions
                     /\ statements[s].positions[nm] = v })

SelectedRecorded(s) == SelectedBucket(s, 1) + SelectedBucket(s, 0) + SelectedBucket(s, -1)

SelectedMax(s) == Max3(SelectedBucket(s, 1), SelectedBucket(s, 0), SelectedBucket(s, -1))

\* The class of a majority fraction m / t
ClassOf(m, t) ==
    IF 5 * m >= 4 * t THEN "unified"
    ELSE IF 5 * m >= 3 * t THEN "moderate"
    ELSE "divided"

WithSeats == { s \in 1..Len(statements) : SelectedRecorded(s) > 0 }

InClass(c) == { s \in WithSeats : ClassOf(SelectedMax(s), SelectedRecorded(s)) = c }

Item(s) == dom.statementsList[s]

\* C17: a statement with recorded seats of the selection is shown in exactly
\* one class by its majority fraction, unified from 0.80, moderate from 0.60,
\* divided below; the overview counts add up to the number of statements
\* with recorded seats, and a statement without them is in no class.
C17_ThreeClasses ==
    loadPhase = "ready" =>
        /\ \A s \in 1..Len(statements) :
               IF s \in WithSeats
               THEN /\ Item(s).indicator.textContent
                           = ClassOf(SelectedMax(s), SelectedRecorded(s))
                    /\ Item(s).consistencyBar.display = "block"
                    /\ Item(s).consistencyBar.label
                           = ClassOf(SelectedMax(s), SelectedRecorded(s))
               ELSE /\ Item(s).indicator.textContent = ""
                    /\ Item(s).consistencyBar.display # "block"
        /\ IF WithSeats = {}
           THEN dom.agreementOverview.display # "block"
           ELSE /\ dom.agreementOverview.display = "block"
                /\ dom.agreementOverview.unified = Cardinality(InClass("unified"))
                /\ dom.agreementOverview.moderate = Cardinality(InClass("moderate"))
                /\ dom.agreementOverview.divided = Cardinality(InClass("divided"))
                /\ dom.agreementOverview.unified + dom.agreementOverview.moderate
                       + dom.agreementOverview.divided = Cardinality(WithSeats)

\* A selection with a statement at exactly 0.60, shown as moderate, and a
\* unified one
C17_Witness ==
    /\ loadPhase = "ready"
    /\ \E s \in WithSeats :
           /\ 5 * SelectedMax(s) = 3 * SelectedRecorded(s)
           /\ Item(s).indicator.textContent = "moderate"
    /\ InClass("unified") # {}
    /\ dom.agreementOverview.display = "block"

Applied == lastOp = "applyCoalition"

\* The class of the majority fraction calculateCoalitionAgreement computes
ScorerClass(statement, coalition) ==
    LET f == majorityFractionOf(statement, coalition)
    IN  IF RatLeq(Rat(4, 5), f) THEN "unified"
        ELSE IF RatLeq(Rat(3, 5), f) THEN "moderate"
        ELSE "divided"

ScorerRecorded(coalition) ==
    { s \in 1..Len(statements) : totalSeatsOf(statements[s], coalition) > 0 }

ScorerInClass(coalition, c) ==
    { s \in ScorerRecorded(coalition) : ScorerClass(statements[s], coalition) = c }

BarTally(bar) == <<bar.agreeSeats, bar.neutralSeats, bar.disagreeSeats>>

\* C18: with a suggested coalition applied, the seat totals and the majority
\* fraction of the live views of the selection are those
\* calculateCoalitionAgreement computes from the coalition list, and the
\* overview, the indicator and the consistency bar show the same class.
C18_ViewsMatchScorer ==
    Applied =>
        LET coalition == uiArg[1]
        IN  /\ \A s \in 1..Len(statements) :
                   IF s \in ScorerRecorded(coalition)
                   THEN /\ BarTally(Item(s).consistencyBar) = TallyOf(statements[s], coalition)
                        /\ BarTally(Item(s).coalitionBar) = TallyOf(statements[s], coalition)
                        /\ Item(s).consistencyBar.percent
                               = jsRound(jsMul(majorityFractionOf(statements[s], coalition),
                                               Num(100)))
                        /\ Item(s).indicator.title.percent = Item(s).consistencyBar.percent
                        /\ Item(s).consistencyBar.display = "block"
                        /\ Item(s).consistencyBar.label = ScorerClass(statements[s], coalition)
                        /\ Item(s).indicator.textContent = ScorerClass(statements[s], coalition)
                   ELSE /\ Item(s).consistencyBar.display = "none"
                        /\ Item(s).coalitionBar.text # ""
                        /\ Item(s).indicator.textContent = ""
            /\ IF ScorerRecorded(coalition) = {}
               THEN dom.agreementOverview.display = "none"
               ELSE /\ dom.agreementOverview.display = "block"
                    /\ \A c \in {"unified", "moderate", "divided"} :
                           dom.agreementOverview[c] = Cardinality(ScorerInClass(coalition, c))

\* A suggestion of a search with a required party applied: the coalition
\* list starts with that party, not in roster order, and its statements fall
\* in two classes.
C18_Witness ==
    /\ Applied
    /\ Len(uiArg[1]) >= 3
    /\ uiArg[1] # coalitionPartiesListOf(coalitionParties)
    /\ dom.agreementOverview.display = "block"
    /\ Cardinality({ c \in {"unified", "moderate", "divided"} :
                       dom.agreementOverview[c] > 0 }) >= 2

(***************************************************************************)
(* Properties of loadData                                                  *)
(***************************************************************************)
\* C20: when a fetch fails, loadData shows one alert and nothing more
\* happens: no further fetch, no initializeApp, no handler registered, no
\* search; the handlers are registered only once both datasets are loaded.
C20_NoCoreAfterFailedLoad ==
    /\ [](loadPhase = "failed" =>
              /\ alerts = 1
              /\ fetches \in {1, 2}
              /\ listeners = {}
              /\ dom = BlankDocument
              /\ statements = <<>>
              /\ scoredCoalitions = <<>>
              /\ lastOp = "loadData")
    /\ [](listeners # {} =>
              /\ "findCoalition" \in listeners
              /\ loadPhase = "ready"
              /\ fetches = 2
              /\ alerts = 0)
    /\ [][loadPhase = "failed" => UNCHANGED vars]_vars
    /\ [][lastOp' = "findBestCoalitions" => "findCoalition" \in listeners]_vars
    /\ [][listeners' # listeners =>
              (loadPhase = "fetchStatements" /\ loadPhase' = "ready" /\ fetches' = 2)]_vars

\* The statement fetch failed after the seats were loaded
C20_Witness ==
    /\ loadPhase = "failed"
    /\ Len(parties) > 0
    /\ fetches = 2
    /\ alerts = 1

(***************************************************************************)
(* Frame of the search and the functions it calls                          *)
(***************************************************************************)
\* C21: findBestCoalitions, generateMajorityCoalitions, getCombinations and
\* calculateCoalitionAgreement leave the roster, the statement set and the
\* selection as they were; only handleDrop and applyCoalition change the
\* selection, and nothing changes the loaded roster and statements.
C21_SearchLeavesDataAlone ==
    [][/\ lastOp' \in {"findBestCoalitions", "generate", "combinations", "score"}
           => (parties' = parties /\ statements' = statements
                   /\ coalitionParties' = coalitionParties)
       /\ coalitionParties' # coalitionParties
           => lastOp' \in {"handleDrop", "applyCoalition"}
       /\ loadPhase = "ready" => (parties' = parties /\ statements' = statements)]_vars

\* A search that found coalitions while parties were selected that form
\* none of them: the selection is still there
C21_Witness ==
    /\ SearchDone
    /\ Len(coalitions) > 0
    /\ Len(statements) > 0
    /\ coalitionParties # {}
    /\ \A i \in 1..Len(coalitions) : MemberNames(coalitions[i]) # coalitionParties

\* The largest of the three buckets of statement s for scoreArg
MaxBucket(s) == Max3(Bucket(s, 1), Bucket(s, 0), Bucket(s, -1))

\* C22 as stated: on a statement with recorded seats the majority fraction is
\* at least 0.5, so max(0, ...) leaves the per-statement score as it is.
C22_MajorityAtLeastHalf ==
    Scored =>
        \A s \in 1..Len(statements) :
            Recorded(s) > 0 =>
                /\ RatLeq(Rat(1, 2), majorityFractionOf(statements[s], scoreArg))
                /\ agreementScoreOf(statements[s], scoreArg)
                       = Rat(2 * MaxBucket(s) - Recorded(s), Recorded(s))

\* C22 amended: the majority fraction is at least 1/3; it is below 0.5 when
\* the seats are split over the buckets, and then max(0, ...) raises the
\* per-statement score from a negative value to 0.
C22_MajorityAtLeastThird ==
    Scored =>
        \A s \in 1..Len(statements) :
            Recorded(s) > 0 =>
                /\ majorityFractionOf(statements[s], scoreArg) = Rat(MaxBucket(s), Recorded(s))
                /\ RatLeq(Rat(1, 3), majorityFractionOf(statements[s], scoreArg))
                /\ agreementScoreOf(statements[s], scoreArg)
                       = IF 2 * MaxBucket(s) >= Recorded(s)
                         THEN Rat(2 * MaxBucket(s) - Recorded(s), Recorded(s))
                         ELSE Num(0)

\* A coalition split three ways in equal parts: the fraction is 1/3 and the
\* clamp acts
C22_Witness ==
    /\ Scored
    /\ \E s \in 1..Len(statements) :
           /\ Recorded(s) > 0
           /\ 3 * MaxBucket(s) = Recorded(s)
           /\ agreementScoreOf(statements[s], scoreArg) = Num(0)

\* No set of at most 5 roster parties has 76 seats
NoMajoritySubset ==
    \A S \in SUBSET RosterNames : Cardinality(S) <= 5 => SeatsOfNames(S) < 76

\* C23: with an empty roster, or one without a majority subset within the
\* size bound, generateMajorityCoalitions returns the empty list, and
\* findBestCoalitions shows that no majority coalition was found and leaves
\* the search button enabled.
C23_NoMajorityFound ==
    (SearchDone /\ (parties = <<>> \/ NoMajoritySubset)) =>
        /\ coalitions = <<>>
        /\ scoredCoalitions = <<>>
        /\ dom.suggestions.visible
        /\ dom.suggestions.message = "Geen meerderheidscoalities gevonden."
        /\ dom.suggestions.items = <<>>
        /\ dom.suggestions.header.top = 0
        /\ ~dom.findCoalition.disabled

\* A search over a roster of two parties with 70 seats together
C23_Witness ==
    /\ SearchDone
    /\ Len(parties) = 2
    /\ NoMajoritySubset
    /\ genArg = parties[2].name
    /\ dom.suggestions.message = "Geen meerderheidscoalities gevonden."

(***************************************************************************)
(* The order of the generated and of the ranked coalitions                 *)
(***************************************************************************)
RosterPosition(nm) == CHOOSE i \in 1..Len(parties) : parties[i].name = nm

\* The roster positions of the members of c that are not the required party
OtherPositions(c) ==
    LET others == IF Truthy(genArg) THEN Tail(c) ELSE c
    IN  [k \in 1..Len(others) |-> RosterPosition(others[k].name)]

LexLess(a, b) ==
    \E k \in 1..Len(a) : a[k] < b[k] /\ \A m \in 1..(k - 1) : a[m] = b[m]

\* C24: the generator returns the coalitions with fewer non-required parties
\* first and, within one size, in lexicographic order of roster positions,
\* each with the required party in front and the others in roster order; in
\* the ranking a coalition never comes behind a larger one of equal
\* agreementRate.
C24_EnumerationOrder ==
    /\ lastOp \in {"generate", "findBestCoalitions"} =>
           /\ \A i \in 1..Len(coalitions) :
                  /\ Truthy(genArg) => coalitions[i][1].name = genArg
                  /\ \A k, m \in 1..Len(OtherPositions(coalitions[i])) :
                         k < m => OtherPositions(coalitions[i])[k]
                                      < OtherPositions(coalitions[i])[m]
           /\ \A i, j \in 1..Len(coalitions) :
                  i < j =>
                      \/ Len(coalitions[i]) < Len(coalitions[j])
                      \/ /\ Len(coalitions[i]) = Len(coalitions[j])
                         /\ LexLess(OtherPositions(coalitions[i]),
                                    OtherPositions(coalitions[j]))
    /\ SearchDone =>
           \A i, j \in 1..Len(scoredCoalitions) :
               (i < j /\ scoredCoalitions[i].score.agreementRate
                             = scoredCoalitions[j].score.agreementRate)
                   => Len(scoredCoalitions[i].coalition) <= Len(scoredCoalitions[j].coalition)

\* A search whose ranking holds a coalition and a larger one with the same
\* agreementRate, a number
C24_Witness ==
    /\ SearchDone
    /\ Len(coalitions) >= 2
    /\ \E i, j \in 1..Len(scoredCoalitions) :
           /\ i < j
           /\ IsFinite(scoredCoalitions[i].score.agreementRate)
           /\ scoredCoalitions[i].score.agreementRate
                  = scoredCoalitions[j].score.agreementRate
           /\ Len(scoredCoalitions[i].coalition) < Len(scoredCoalitions[j].coalition)

\* A search with a required party that is not the first of the roster, over
\* a roster with several coalitions of one size
EnumerationOrderReached ==
    /\ lastOp \in {"generate", "findBestCoalitions"}
    /\ Truthy(genArg)
    /\ \E i \in 1..Len(coalitions) : OtherPositions(coalitions[i])[1] < RosterPosition(genArg)
    /\ \E i, j \in 1..Len(coalitions) : i < j /\ Len(coalitions[i]) = Len(coalitions[j])

(***************************************************************************)
(* Properties of the selection and its panes                               *)
(***************************************************************************)
Dropped == lastOp = "handleDrop"

\* C25: a click on a suggestion sets the selection to exactly the names of
\* that coalition, whatever was selected before; the selection then has at
\* least 76 seats and the coalition bar shows the majority marker.
C25_SuggestionReplacesSelection ==
    /\ [](Applied =>
              /\ coalitionParties = MemberNames(uiArg[1])
              /\ SeatsOfNames(coalitionParties) >= 76
              /\ dom.coalitionBar.coalitionSeats >= 76
              /\ dom.coalitionBar.textContent = "Meerderheid"
              /\ { dom.coalitionParties[k] : k \in 1..Len(dom.coalitionParties) }
                     = coalitionParties)
    /\ [][lastOp' = "applyCoalition" =>
              \E i \in 1..Len(dom.suggestions.items) :
                  /\ uiArg' = <<dom.suggestions.items[i].coalition>>
                  /\ coalitionParties' = MemberNames(dom.suggestions.items[i].coalition)]_vars

\* A suggestion of two of the four roster parties applied
C25_Witness ==
    /\ Applied
    /\ Len(parties) = 4
    /\ Cardinality(coalitionParties) = 2
    /\ Len(dom.availableParties) = 2
    /\ dom.coalitionBar.textContent = "Meerderheid"

\* How often name nm is rendered in the two panes
TimesRendered(nm) ==
    Cardinality({ k \in 1..Len(dom.availableParties) : dom.availableParties[k] = nm })
        + Cardinality({ k \in 1..Len(dom.coalitionParties) : dom.coalitionParties[k] = nm })

\* C26: every roster party is rendered in exactly one of the two panes, the
\* selected ones in the coalition pane; a drop on the coalition zone adds
\* the party to the selection, a drop on another zone removes it, and the
\* same drop once more changes nothing.
C26_PanesPartitionRoster ==
    /\ [](loadPhase = "ready" =>
              \A nm \in RosterNames :
                  /\ TimesRendered(nm) = 1
                  /\ nm \in coalitionParties
                         <=> \E k \in 1..Len(dom.coalitionParties) :
                                 dom.coalitionParties[k] = nm)
    /\ [][lastOp' = "handleDrop" =>
              IF uiArg'[2] = "coalitionParties"
              THEN coalitionParties' = coalitionParties \cup {uiArg'[1]}
              ELSE coalitionParties' = coalitionParties \ {uiArg'[1]}]_vars
    /\ [][(Dropped /\ lastOp' = "handleDrop" /\ uiArg' = uiArg)
              => coalitionParties' = coalitionParties]_vars
    /\ [](\A nm \in DropNames, zone \in DropZones :
              handleDrop(handleDrop(coalitionParties, nm, zone), nm, zone)
                  = handleDrop(coalitionParties, nm, zone))

\* A party dropped back on the available pane while others stay selected
C26_Witness ==
    /\ Dropped
    /\ uiArg[2] = "availableParties"
    /\ uiArg[1] \in RosterNames
    /\ uiArg[1] \notin coalitionParties
    /\ Cardinality(coalitionParties \cap RosterNames) >= 2
    /\ Len(dom.availableParties) >= 2

\* C27: the coalition bar shows the seat sum of the roster parties in the
\* selection, a name that is not in the roster adding nothing, 150 minus
\* that sum for the opposition, and the majority marker exactly from 76.
C27_CoalitionBarShowsSeats ==
    loadPhase = "ready" =>
        /\ dom.coalitionBar.coalitionSeats = SeatsOfNames(coalitionParties \cap RosterNames)
        /\ dom.coalitionBar.oppositionSeats = 150 - SeatsOfNames(coalitionParties \cap RosterNames)
        /\ dom.coalitionBar.textContent = "Meerderheid"
               <=> SeatsOfNames(coalitionParties \cap RosterNames) >= 76
        /\ dom.coalitionBar.textContent \in {"Meerderheid", ""}

\* A selection of 75 seats that also holds a name not in the roster
C27_Witness ==
    /\ Dropped
    /\ coalitionParties \ RosterNames # {}
    /\ dom.coalitionBar.coalitionSeats = 75
    /\ dom.coalitionBar.oppositionSeats = 75
    /\ dom.coalitionBar.textContent = ""

\* C28: the size penalty shown with a suggestion, (coalitionSize - 2) * 5
\* points, is the penalty subtracted from the average agreement, also for a
\* coalition of one party.
C28_PenaltyShownIsPenaltyApplied ==
    SearchDone =>
        \A i \in 1..Len(Presented) :
            Num(Presented[i].penaltyShown)
                = jsMul(sizePenaltyOf(Presented[i].coalition), Num(100))

\* The same for the coalitions of two and more parties
PenaltyShownFromTwoParties ==
    SearchDone =>
        \A i \in 1..Len(Presented) :
            Len(Presented[i].coalition) >= 2 =>
                Num(Presented[i].penaltyShown)
                    = jsMul(sizePenaltyOf(Presented[i].coalition), Num(100))

PenaltyShownFromTwoPartiesReached ==
    /\ SearchDone
    /\ \E i \in 1..Len(Presented) : Presented[i].penaltyShown = 10

\* The majority stance by the order of the tests: agree, disagree, neutral
StanceOf(s) ==
    IF SelectedBucket(s, 1) = SelectedMax(s) THEN "eens"
    ELSE IF SelectedBucket(s, -1) = SelectedMax(s) THEN "oneens"
    ELSE "neutraal"

\* C29: on a statement with recorded seats the majority stance is agree if
\* the agree bucket is the largest, else disagree if the disagree bucket is,
\* else neutral; the border is shown exactly for agree or disagree with a
\* majority fraction of at least 60%, green or red; indicator and
\* consistency bar report the same stance.
C29_MajorityStance ==
    loadPhase = "ready" =>
        \A s \in WithSeats :
            /\ Item(s).indicator.title.majorityStance = StanceOf(s)
            /\ Item(s).consistencyBar.badgeText = StanceOf(s)
            /\ Item(s).indicator.borderLeft # ""
                   <=> /\ StanceOf(s) \in {"eens", "oneens"}
                       /\ 5 * SelectedMax(s) >= 3 * SelectedRecorded(s)
            /\ Item(s).indicator.borderLeft # ""
                   => Item(s).indicator.borderLeft
                          = (IF StanceOf(s) = "eens" THEN "green" ELSE "red")

\* A selection with agree and disagree tied on one statement (agree, no
\* border), a neutral majority on another (no border) and a disagree
\* majority with a border on a third
C29_Witness ==
    /\ loadPhase = "ready"
    /\ \E s \in WithSeats :
           /\ SelectedBucket(s, 1) = SelectedBucket(s, -1)
           /\ SelectedBucket(s, 1) = SelectedMax(s)
           /\ Item(s).indicator.title.majorityStance = "eens"
           /\ Item(s).indicator.borderLeft = ""
    /\ \E s \in WithSeats :
           /\ Item(s).consistencyBar.badgeText = "neutraal"
           /\ Item(s).indicator.borderLeft = ""
    /\ \E s \in WithSeats : Item(s).indicator.borderLeft = "red"

====
